---- MODULE Spec2Model ----
(***************************************************************************)
(* Model of GeoData/get_coords.py: extraction of landmark lines from       *)
(* in.txt, geocoding of each landmark against the Nominatim service with   *)
(* a name-only fallback query and a retry loop, and the final summary and  *)
(* CSV report.                                                             *)
(*                                                                         *)
(* Text is a sequence of one-character strings.  Floating point numbers    *)
(* are integers counting tenths (1.5 is 15); every literal used in the     *)
(* inputs has at most one fractional digit.  Delays are in tenths of a     *)
(* second.                                                                 *)
(***************************************************************************)
EXTENDS Integers, Sequences, FiniteSets, TLC

(***************************************************************************)
(* Bounds of the model.                                                    *)
(***************************************************************************)
\* number of lines of in.txt
MaxLines == 2

(***************************************************************************)
(* Program constants.                                                      *)
(***************************************************************************)
\* geocode_landmark(name, location, retries=3)
Retries == 3
\* time.sleep(2), in tenths
RetryDelay == 20
\* time.sleep(1.1), in tenths
PaceDelay == 11

(***************************************************************************)
(* Python values.                                                          *)
(***************************************************************************)
None == [t |-> "None"]

PyStr(s) == [t |-> "str", s |-> s]

\* the tuple (lat, lon, display_name)
PyTuple(lat, lon, dn) == [t |-> "tuple", lat |-> lat, lon |-> lon, display_name |-> dn]

\* bool(v) of the values the program tests: None is false, a 3-tuple and a
\* two-key dict are true
Truthy(v) == IF "t" \in DOMAIN v THEN v.t = "tuple" ELSE DOMAIN v # {}

Abs(x) == IF x < 0 THEN -x ELSE x

(***************************************************************************)
(* Text helpers.                                                           *)
(***************************************************************************)
Digits == <<"0", "1", "2", "3", "4", "5", "6", "7", "8", "9">>

IsDigit(c) == \E d \in 1..10 : Digits[d] = c

DigitVal(c) == (CHOOSE d \in 1..10 : Digits[d] = c) - 1

IsSpace(c) == c \in {" ", "\t"}

Slice(s, i, j) == [k \in 1..(j - i + 1) |-> s[i + k - 1]]

Min(S) == CHOOSE i \in S : \A k \in S : i <= k

Max(S) == CHOOSE i \in S : \A k \in S : k <= i

\* s between the first and the last of the positions keep
Between(s, keep) == IF keep = {} THEN <<>> ELSE Slice(s, Min(keep), Max(keep))

\* str.strip()
Strip(s) == Between(s, {i \in 1..Len(s) : ~IsSpace(s[i])})

\* the first index at or after i where s holds c; Len(s) + 1 when it does not
FirstAt(s, i, c) == Min({k \in i..Len(s) : s[k] = c} \cup {Len(s) + 1})

RECURSIVE SplitAt(_, _)
\* s cut at its first newline, which is at p, and the rest split again
SplitAt(s, p) ==
    IF p > Len(s) THEN <<s>>
    ELSE <<Slice(s, 1, p - 1)>>
             \o SplitAt(Slice(s, p + 1, Len(s)), FirstAt(s, p + 1, "\n") - p)

\* content.split('\n')
Split(s) == SplitAt(s, FirstAt(s, 1, "\n"))

RECURSIVE JoinLines(_)
\* the text of a file made of the given lines
JoinLines(ls) ==
    IF Len(ls) = 0 THEN <<>>
    ELSE IF Len(ls) = 1 THEN ls[1]
    ELSE ls[1] \o <<"\n">> \o JoinLines(Tail(ls))

\* str.replace(',', ';')
ReplaceComma(s) == [i \in 1..Len(s) |-> IF s[i] = "," THEN ";" ELSE s[i]]

RECURSIVE DigitsVal(_)
\* value of a run of decimal digits
DigitsVal(s) ==
    IF Len(s) = 0 THEN 0
    ELSE 10 * DigitsVal(Slice(s, 1, Len(s) - 1)) + DigitVal(s[Len(s)])

AllDigits(s) == \A i \in 1..Len(s) : IsDigit(s[i])

\* the unsigned part of a float literal: digits, optional point, digits,
\* with at least one digit
UnsignedOK(s) ==
    \E p \in 0..Len(s) :
        /\ AllDigits(Slice(s, 1, p))
        /\ \/ p = Len(s) /\ p > 0
           \/ /\ p < Len(s)
              /\ s[p + 1] = "."
              /\ AllDigits(Slice(s, p + 2, Len(s)))
              /\ Len(s) > 1

\* the value, in tenths, of an unsigned literal whose point is at p
\* (p = Len(s) + 1 when it has none)
ValAt(s, p) ==
    10 * DigitsVal(Slice(s, 1, p - 1))
        + (IF p + 1 <= Len(s) THEN DigitVal(s[p + 1]) ELSE 0)

UnsignedVal(s) == ValAt(s, FirstAt(s, 1, "."))

\* a stripped text is a float literal
LiteralOK(u) ==
    /\ Len(u) > 0
    /\ IF u[1] \in {"+", "-"} THEN UnsignedOK(Tail(u)) ELSE UnsignedOK(u)

\* the value, in tenths, of a stripped float literal
LiteralVal(u) ==
    IF u[1] = "-" THEN -UnsignedVal(Tail(u))
    ELSE IF u[1] = "+" THEN UnsignedVal(Tail(u))
    ELSE UnsignedVal(u)

\* float(s) succeeds
FloatOK(s) == \E u \in {Strip(s)} : LiteralOK(u)

\* float(s), in tenths
FloatVal(s) == CHOOSE v \in {LiteralVal(u) : u \in {Strip(s)}} : TRUE

RECURSIVE FormatNat(_)
FormatNat(n) == IF n < 10 THEN <<Digits[n + 1]>> ELSE FormatNat(n \div 10) \o <<Digits[(n % 10) + 1]>>

\* str(x) of a float x given in tenths: 15 is "1.5", -20 is "-2.0"
FormatFloat(x) ==
    (IF x < 0 THEN <<"-">> ELSE <<>>)
        \o FormatNat(Abs(x) \div 10) \o <<".">> \o FormatNat(Abs(x) % 10)

(***************************************************************************)
(* The extraction pattern: name, spaces, parenthesised location, spaces,   *)
(* dash, spaces, parenthesised pair of numbers.                            *)
(***************************************************************************)
\* the character U+2013 of the pattern's dash class
EnDash == "<en dash>"

\* [+-]?\d+\.?\d* matches the whole of s
NumberOK(s) ==
    /\ Len(s) > 0
    /\ IF s[1] \in {"+", "-"}
       THEN Len(s) > 1 /\ IsDigit(s[2]) /\ UnsignedOK(Tail(s))
       ELSE IsDigit(s[1]) /\ UnsignedOK(s)

\* the last index of the run of whitespace that starts at s[i]; i - 1 when
\* s[i] is not whitespace
SpaceRunEnd(s, i) == Min({k \in i..Len(s) : ~IsSpace(s[k])} \cup {Len(s) + 1}) - 1

\* The shape of a match whose group 1 is s[1..a] and whose group 2 ends at c.
\* Whitespace runs are delimited by a non-space character of the pattern and
\* the numbers by ',' and ')', so a and c fix every other boundary.
BoundsEFGH(s, a, b, c, d, e, f, g) ==
    [a |-> a, b |-> b, c |-> c, d |-> d, e |-> e, f |-> f, g |-> g,
     h |-> FirstAt(s, g + 1, ")") - 1]

BoundsEFG(s, a, b, c, d, e, f) == BoundsEFGH(s, a, b, c, d, e, f, SpaceRunEnd(s, f + 2))

BoundsEF(s, a, b, c, d, e) == BoundsEFG(s, a, b, c, d, e, FirstAt(s, e + 2, ",") - 1)

BoundsDE(s, a, b, c, d) == BoundsEF(s, a, b, c, d, SpaceRunEnd(s, d + 2))

Bounds(s, a, c) == BoundsDE(s, a, SpaceRunEnd(s, a + 1), c, SpaceRunEnd(s, c + 2))

\* the pattern matches a prefix of s with the boundaries m: group 1 =
\* s[1..a], group 2 = s[b+2..c], group 3 = s[e+2..f], group 4 = s[g+1..h]
ShapeOK(s, m) ==
    /\ 1 <= m.a
    /\ m.b > m.a /\ m.b + 1 <= Len(s) /\ s[m.b + 1] = "("
    /\ m.c >= m.b + 2
    /\ m.c + 1 <= Len(s) /\ s[m.c + 1] = ")"
    /\ m.d >= m.c + 2
    /\ m.d + 1 <= Len(s) /\ s[m.d + 1] \in {EnDash, "-"}
    /\ m.e >= m.d + 2
    /\ m.e + 1 <= Len(s) /\ s[m.e + 1] = "("
    /\ m.f + 1 <= Len(s)
    /\ NumberOK(Slice(s, m.e + 2, m.f))
    /\ m.h + 1 <= Len(s)
    /\ NumberOK(Slice(s, m.g + 1, m.h))

MatchAt(s, a, c) == ShapeOK(s, Bounds(s, a, c))

Matches(s) == {m \in (1..Len(s)) \X (1..Len(s)) : MatchAt(s, m[1], m[2])}

\* the lazy groups take the shortest name, then the shortest location, for
\* which the rest of the pattern matches
FirstMatch(M) == CHOOSE m \in M : \A n \in M : m[1] < n[1] \/ (m[1] = n[1] /\ m[2] <= n[2])

Groups(s, m) ==
    [t |-> "match",
     g1 |-> Slice(s, 1, m.a),
     g2 |-> Slice(s, m.b + 2, m.c),
     g3 |-> Slice(s, m.e + 2, m.f),
     g4 |-> Slice(s, m.g + 1, m.h)]

GroupsAt(s, ac) == Groups(s, Bounds(s, ac[1], ac[2]))

MatchIn(s, M) == IF M = {} THEN None ELSE GroupsAt(s, FirstMatch(M))

\* re.match(pattern, s)
ReMatch(s) == MatchIn(s, Matches(s))

\* the tuple built from a match, or None when the line did not match
MatchRecord(match) ==
    IF match = None THEN None
    ELSE [name |-> Strip(match.g1),
          location |-> Strip(match.g2),
          existing_lat |-> FloatVal(match.g3),
          existing_lon |-> FloatVal(match.g4)]

\* the body of the loop for one line of the file
LineRecord(raw) == MatchRecord(ReMatch(Strip(raw)))

\* if match: landmarks.append(...)
AppendIf(list, r) == IF r = None THEN list ELSE Append(list, r)

RECURSIVE ExtractLinesUntilMismatch(_)
\* as ExtractLines, but the loop ends at the first line that does not match
ExtractLinesUntilMismatch(ls) ==
    IF Len(ls) = 0 \/ LineRecord(ls[1]) = None THEN <<>>
    ELSE <<LineRecord(ls[1])>> \o ExtractLinesUntilMismatch(Tail(ls))

RECURSIVE ExtractLines(_)
\* the loop over content.split('\n')
ExtractLines(ls) ==
    IF Len(ls) = 0 THEN <<>>
    ELSE AppendIf(ExtractLines(Slice(ls, 1, Len(ls) - 1)), LineRecord(ls[Len(ls)]))

\* extract_landmarks_from_file on a readable file
ExtractLandmarks(content) == ExtractLines(Split(content))

(***************************************************************************)
(* Inputs: the lines in.txt may hold and the answers the provider may      *)
(* give.                                                                   *)
(***************************************************************************)
\* a (b) - (1.5, -2)
LinePlain == <<"a", " ", "(", "b", ")", " ", "-", " ", "(", "1", ".", "5", ",", " ", "-", "2", ")">>

\* a,c (d) <en dash> (0,7.) x      with surrounding blanks
LineComma ==
    <<" ", "a", ",", "c", " ", "(", "d", ")", " ", EnDash, " ", "(", "0", ",", "7", ".", ")", " ", "x", " ">>

\* a (b)- (1, 2)      no blank before the dash
LineNoSpace == <<"a", " ", "(", "b", ")", "-", " ", "(", "1", ",", " ", "2", ")">>

\* two lines that match and one that does not; the empty text is one blank line
InputLines == {LinePlain, LineComma, LineNoSpace}

RECURSIVE SeqsUpTo(_, _)
\* the sequences of at most n elements of S
SeqsUpTo(S, n) ==
    IF n = 0 THEN {<<>>}
    ELSE {<<>>} \cup {<<x>> \o q : x \in S, q \in SeqsUpTo(S, n - 1)}

\* the texts in.txt may hold
InputTexts == {JoinLines(ls) : ls \in SeqsUpTo(InputLines, MaxLines)}

\* candidates of a provider response: JSON objects, lat and lon as strings
CandFull == [lat |-> <<"1", ".", "5">>, lon |-> <<"-", "2">>, display_name |-> PyStr(<<"A">>)]

\* no display_name; float(" 0") and float("+0.") are 0.0
CandZero == [lat |-> <<" ", "0">>, lon |-> <<"+", "0", ".">>]

CandNullLabel == [lat |-> <<"3">>, lon |-> <<"4">>, display_name |-> None]

CandNoLat == [lon |-> <<"4">>, display_name |-> PyStr(<<"A">>)]

CandBadLon == [lat |-> <<"3">>, lon |-> <<"x">>, display_name |-> PyStr(<<"A">>)]

\* candidates whose lat and lon are there and are float literals
WellFormed == {CandFull, CandZero, CandNullLabel}

\* candidates for which float(result['lat']) or float(result['lon']) raises
Malformed == {CandNoLat, CandBadLon}

Candidates == WellFormed \cup Malformed

\* The JSON arrays a response may hold.  The requests ask for limit=1; the
\* arrays of two candidates are there for the reading of data[0].
CandidateLists ==
    {<<>>} \cup {<<c>> : c \in Candidates} \cup {<<c, d>> : c \in Candidates, d \in Candidates}

\* exceptions caught by  except (URLError, HTTPError, TimeoutError)
TransientErrors == {"URLError", "HTTPError", "TimeoutError"}

\* what urlopen and json.loads may produce for one request: a transient
\* error, a body that is no JSON, or a JSON array of candidates
Responses ==
    [kind : TransientErrors]
        \cup {[kind |-> "JSONDecodeError"]}
        \cup {[kind |-> "json", data |-> d] : d \in CandidateLists}

\* what a response is, whatever the program makes of it
ResponseKind(resp) ==
    IF resp.kind \in TransientErrors THEN "transient"
    ELSE IF resp.kind = "JSONDecodeError" THEN "garbage"
    ELSE IF Len(resp.data) = 0 THEN "empty"
    ELSE IF resp.data[1] \in Malformed THEN "malformed"
    ELSE "candidates"

(***************************************************************************)
(* geocode_landmark.                                                       *)
(***************************************************************************)
QuerySuffix == <<",", " ", "C", "a", "l", "i", "f", "o", "r", "n", "i", "a", ",", " ", "U", "S", "A">>

\* f"{name}, {location}, California, USA"
PrimaryQuery(name, location) == name \o <<",", " ">> \o location \o QuerySuffix

\* f"{name}, California, USA"
SimpleQuery(name) == name \o QuerySuffix

\* float(result['lat']), float(result['lon']) and result.get('display_name', '')
\* raise nothing
CandidateOK(result) ==
    /\ "lat" \in DOMAIN result
    /\ FloatOK(result.lat)
    /\ "lon" \in DOMAIN result
    /\ FloatOK(result.lon)

\* the tuple returned for the candidate result
CandidateTuple(result) ==
    PyTuple(FloatVal(result.lat), FloatVal(result.lon),
            IF "display_name" \in DOMAIN result THEN result.display_name ELSE PyStr(<<>>))

\* as PickCandidate, but the last candidate is read
PickLastCandidate(data) == data[Len(data)]

\* the candidate a non-empty response is read from:  result = data[0]
PickCandidate(data) == data[1]

\* if data and len(data) > 0
HasCandidates(data) == Len(data) > 0

\* as AfterTransient, but one attempt too many is allowed
AfterTransientOneMore(att) == IF att < Retries THEN "backoff" ELSE "returned"

\* the except clauses: what follows a transient failure of attempt att
AfterTransient(att) == IF att < Retries - 1 THEN "backoff" ELSE "returned"

(***************************************************************************)
(* main.                                                                   *)
(***************************************************************************)
\* as OutcomeRecord, but a result whose latitude is 0.0 counts as absent
OutcomeRecordLatTruthy(lm, gr) ==
    IF Truthy(gr) /\ gr.lat # 0
    THEN [name |-> lm.name,
          location |-> lm.location,
          existing_coords |-> [lat |-> lm.existing_lat, lon |-> lm.existing_lon],
          new_coords |-> [lat |-> gr.lat, lon |-> gr.lon],
          display_name |-> gr.display_name,
          coord_difference |-> [lat_diff |-> Abs(gr.lat - lm.existing_lat),
                                lon_diff |-> Abs(gr.lon - lm.existing_lon)]]
    ELSE [name |-> lm.name,
          location |-> lm.location,
          existing_coords |-> [lat |-> lm.existing_lat, lon |-> lm.existing_lon],
          new_coords |-> None,
          display_name |-> None,
          error |-> "Geocoding failed"]

\* the dict appended to results for landmark lm and the value gr returned by
\* geocode_landmark
OutcomeRecord(lm, gr) ==
    IF Truthy(gr)
    THEN [name |-> lm.name,
          location |-> lm.location,
          existing_coords |-> [lat |-> lm.existing_lat, lon |-> lm.existing_lon],
          new_coords |-> [lat |-> gr.lat, lon |-> gr.lon],
          display_name |-> gr.display_name,
          coord_difference |-> [lat_diff |-> Abs(gr.lat - lm.existing_lat),
                                lon_diff |-> Abs(gr.lon - lm.existing_lon)]]
    ELSE [name |-> lm.name,
          location |-> lm.location,
          existing_coords |-> [lat |-> lm.existing_lat, lon |-> lm.existing_lon],
          new_coords |-> None,
          display_name |-> None,
          error |-> "Geocoding failed"]

\* as CsvCoords, but the existing coordinates are always written
CsvCoordsExisting(r) == r.existing_coords

\* the coordinates written for record r: new if available, otherwise existing
CsvCoords(r) == IF Truthy(r.new_coords) THEN r.new_coords ELSE r.existing_coords

\* f"{name},{lat},{lon}\n"
CsvRow(r) ==
    ReplaceComma(r.name) \o <<",">> \o FormatFloat(CsvCoords(r).lat)
        \o <<",">> \o FormatFloat(CsvCoords(r).lon) \o <<"\n">>

CsvHeader == <<"n", "a", "m", "e", ",", "l", "a", "t", ",", "l", "o", "n", "\n">>

RECURSIVE CsvRows(_)
CsvRows(rs) == IF Len(rs) = 0 THEN <<>> ELSE CsvRow(rs[1]) \o CsvRows(Tail(rs))

\* the text written to landmarks_coords.csv
CsvText(rs) == CsvHeader \o CsvRows(rs)

\* as Successful, but the records are counted by  r.get('display_name')
SuccessfulNamed(rs) ==
    Cardinality({i \in 1..Len(rs) :
                    rs[i].display_name # None /\ rs[i].display_name # PyStr(<<>>)})

\* sum(1 for r in results if r.get('new_coords'))
Successful(rs) == Cardinality({i \in 1..Len(rs) : Truthy(rs[i].new_coords)})

(***************************************************************************)
(* The geocoding service: the live one, or a stub that records a run and   *)
(* gives the same answers again when main is run a second time.            *)
(***************************************************************************)
\* the live service: it may answer anything, nothing is recorded
Live == [mode |-> "live"]

\* a stub that records the requests of the run and the answers it gave
Recording == [mode |-> "record", sent |-> <<>>, tape |-> <<>>]

\* the answers the stub gives: a network failure, no candidate, two
\* candidates, and a candidate that cannot be read
StubResponses ==
    {[kind |-> "URLError"],
     [kind |-> "json", data |-> <<>>],
     [kind |-> "json", data |-> <<CandZero, CandFull>>],
     [kind |-> "json", data |-> <<CandNoLat>>]}

\* the stub of the second run: the recorded answers, given again in order;
\* first keeps what the first run sent and produced
Replaying(h, produced) ==
    [mode |-> "replay", sent |-> <<>>, tape |-> h.tape, pos |-> 1,
     first |-> [sent |-> h.sent] @@ produced]

\* whether the service may answer resp to the request in flight
Answers(h, resp) ==
    IF h.mode = "live" THEN TRUE
    ELSE IF h.mode = "record" THEN resp \in StubResponses
    ELSE h.pos <= Len(h.tape) /\ resp = h.tape[h.pos]

\* the service after the request req was sent to it
Sent(h, req) == IF h.mode = "live" THEN h ELSE [h EXCEPT !.sent = Append(@, req)]

\* the service after it gave the answer resp
Delivered(h, resp) ==
    IF h.mode = "live" THEN h
    ELSE IF h.mode = "record" THEN [h EXCEPT !.tape = Append(@, resp)]
    ELSE [h EXCEPT !.pos = @ + 1]

VARIABLES
    inFile,         \* in.txt: None when it cannot be read, else its text
    pc,             \* the statement the program is at
    landmarks,      \* main: the extracted tuples
    idx,            \* main: enumerate index of the landmark in hand
    results,        \* main: the list of outcome dicts
    attempt,        \* geocode_landmark: loop variable
    inflight,       \* the request awaiting its response, or None
    response,       \* what urlopen and json.loads gave for the last request of
                    \* the call in progress, or None
    geocode_result, \* the value the last geocode_landmark call returned; None
                    \* while a call runs
    summary,        \* the totals printed on the console, or None
    csvFile,        \* landmarks_coords.csv: None until written, else its text
    jsonFile,       \* landmarks_with_coords.json: None until written
    callLog,        \* requests sent, kinds of answers received and delays
                    \* taken by the call in progress
    gap,            \* delays taken since the last request was sent
    requested,      \* whether any request was ever sent
    returns,        \* the values the geocode_landmark calls returned, in order
    harness         \* the geocoding service the run talks to

vars == <<inFile, pc, landmarks, idx, results, attempt, inflight, response, geocode_result,
          summary, csvFile, jsonFile, callLog, gap, requested, returns, harness>>

\* the state main starts in, whatever the service
InitProgram ==
    /\ inFile \in {None} \cup {[t |-> "file", text |-> x] : x \in InputTexts}
    /\ pc = "start"
    /\ landmarks = <<>>
    /\ idx = 0
    /\ results = <<>>
    /\ attempt = 0
    /\ inflight = None
    /\ response = None
    /\ geocode_result = None
    /\ summary = None
    /\ csvFile = None
    /\ jsonFile = None
    /\ callLog = <<>>
    /\ gap = <<>>
    /\ requested = FALSE
    /\ returns = <<>>

\* a run against the live service
Init == InitProgram /\ harness = Live

\* a run against the recording stub
InitRerun == InitProgram /\ harness = Recording

\* landmarks = extract_landmarks_from_file(input_file)
Extract ==
    /\ pc = "start"
    /\ inFile # None
    /\ landmarks' = ExtractLandmarks(inFile.text)
    /\ pc' = "loop"
    /\ UNCHANGED <<inFile, idx, results, attempt, inflight, response, geocode_result, summary,
                   csvFile, jsonFile, callLog, gap, requested, returns, harness>>

\* as ExtractFails, but the error is swallowed and the run goes on with no
\* landmark
ExtractFailsSilently ==
    /\ pc = "start"
    /\ inFile = None
    /\ pc' = "loop"
    /\ UNCHANGED <<inFile, landmarks, idx, results, attempt, inflight, response, geocode_result,
                   summary, csvFile, jsonFile, callLog, gap, requested, returns, harness>>

\* open(filename) raises; nothing catches it and the program ends
ExtractFails ==
    /\ pc = "start"
    /\ inFile = None
    /\ pc' = "aborted"
    /\ UNCHANGED <<inFile, landmarks, idx, results, attempt, inflight, response, geocode_result,
                   summary, csvFile, jsonFile, callLog, gap, requested, returns, harness>>

\* the for statement of main takes the next landmark and calls
\* geocode_landmark
NextLandmark ==
    /\ pc = "loop"
    /\ idx < Len(landmarks)
    /\ idx' = idx + 1
    /\ attempt' = 0
    /\ callLog' = <<>>
    /\ geocode_result' = None
    /\ pc' = "try"
    /\ UNCHANGED <<inFile, landmarks, results, inflight, response, summary, csvFile,
                   jsonFile, gap, requested, returns, harness>>

\* urlopen(request, timeout=10) of the primary query
SendPrimary ==
    /\ pc = "try"
    /\ inflight' = [stage |-> "primary",
                    q |-> PrimaryQuery(landmarks[idx].name, landmarks[idx].location)]
    /\ callLog' = Append(callLog, "primary")
    /\ gap' = <<>>
    /\ requested' = TRUE
    /\ pc' = "primary"
    /\ harness' = Sent(harness, inflight')
    /\ UNCHANGED <<inFile, landmarks, idx, results, attempt, response, geocode_result,
                   summary, csvFile, jsonFile, returns>>

\* the request in flight is answered: urlopen raises, or the body is read and
\* json.loads raises or gives the candidate list
Deliver(resp) ==
    /\ pc \in {"primary", "fallback"}
    /\ inflight # None
    /\ response' = resp
    /\ inflight' = None
    /\ callLog' = Append(callLog, ResponseKind(resp))
    /\ Answers(harness, resp)
    /\ harness' = Delivered(harness, resp)
    /\ UNCHANGED <<inFile, pc, landmarks, idx, results, attempt, geocode_result, summary,
                   csvFile, jsonFile, gap, requested, returns>>

\* what no step of geocode_landmark changes
mainVars == <<inFile, landmarks, idx, results, summary, csvFile, jsonFile>>

\* geocode_landmark returns v
Return(v) ==
    /\ geocode_result' = v
    /\ returns' = Append(returns, v)
    /\ pc' = "returned"
    /\ UNCHANGED <<attempt, inflight, response, callLog, gap, requested, mainVars, harness>>

\* a response with candidates arrives, for either query:  return (lat, lon,
\* display_name)
Found(resp) ==
    /\ pc \in {"primary", "fallback"}
    /\ response = resp
    /\ resp.kind = "json"
    /\ HasCandidates(resp.data)
    /\ CandidateOK(PickCandidate(resp.data))
    /\ Return(CandidateTuple(PickCandidate(resp.data)))

\* as PrimaryEmpty, but the fallback query is also sent when the primary
\* query failed on the network
PrimaryEmptyOrFailed(resp) ==
    /\ pc = "primary"
    /\ response = resp
    /\ response' = None
    /\ \/ resp.kind = "json" /\ ~HasCandidates(resp.data)
       \/ resp.kind \in TransientErrors
    /\ inflight' = [stage |-> "fallback", q |-> SimpleQuery(landmarks[idx].name)]
    /\ callLog' = Append(callLog, "fallback")
    /\ gap' = <<>>
    /\ pc' = "fallback"
    /\ harness' = Sent(harness, inflight')
    /\ UNCHANGED <<attempt, geocode_result, requested, returns, mainVars>>

\* the primary response has no candidate: urlopen(simple_request, timeout=10)
PrimaryEmpty(resp) ==
    /\ pc = "primary"
    /\ response = resp
    /\ response' = None
    /\ resp.kind = "json"
    /\ ~HasCandidates(resp.data)
    /\ inflight' = [stage |-> "fallback", q |-> SimpleQuery(landmarks[idx].name)]
    /\ callLog' = Append(callLog, "fallback")
    /\ gap' = <<>>
    /\ pc' = "fallback"
    /\ harness' = Sent(harness, inflight')
    /\ UNCHANGED <<attempt, geocode_result, requested, returns, mainVars>>

\* as FallbackEmpty, but an empty answer is retried like a network failure
FallbackEmptyRetries(resp) ==
    /\ pc = "fallback"
    /\ response = resp
    /\ resp.kind = "json"
    /\ Len(resp.data) = 0
    /\ IF attempt < Retries - 1
       THEN /\ pc' = "backoff"
            /\ response' = None
            /\ UNCHANGED <<attempt, inflight, geocode_result, callLog, gap, requested,
                           returns, mainVars, harness>>
       ELSE Return(None)

\* the simple response has no candidate either:  return None
FallbackEmpty(resp) ==
    /\ pc = "fallback"
    /\ response = resp
    /\ resp.kind = "json"
    /\ ~HasCandidates(resp.data)
    /\ Return(None)

\* except (URLError, HTTPError, TimeoutError), for either query
Transient(resp) ==
    /\ pc \in {"primary", "fallback"}
    /\ response = resp
    /\ resp.kind \in TransientErrors
    /\ IF AfterTransient(attempt) = "backoff"
       THEN /\ pc' = "backoff"
            /\ response' = None
            /\ UNCHANGED <<attempt, inflight, geocode_result, callLog, gap, requested,
                           returns, mainVars, harness>>
       ELSE Return(None)

\* as Unexpected, but the failure is retried like a network failure
UnexpectedRetries(resp) ==
    /\ pc \in {"primary", "fallback"}
    /\ response = resp
    /\ \/ resp.kind = "JSONDecodeError"
       \/ /\ resp.kind = "json"
          /\ Len(resp.data) > 0
          /\ resp.data[1] \in Malformed
    /\ IF attempt < Retries - 1
       THEN /\ pc' = "backoff"
            /\ response' = None
            /\ UNCHANGED <<attempt, inflight, geocode_result, callLog, gap, requested,
                           returns, mainVars, harness>>
       ELSE Return(None)

\* as Unexpected, but nothing catches the exception: it leaves
\* geocode_landmark and main, and the program ends
UnexpectedPropagates(resp) ==
    /\ pc \in {"primary", "fallback"}
    /\ response = resp
    /\ \/ resp.kind = "JSONDecodeError"
       \/ /\ resp.kind = "json"
          /\ HasCandidates(resp.data)
          /\ ~CandidateOK(PickCandidate(resp.data))
    /\ pc' = "aborted"
    /\ UNCHANGED <<attempt, inflight, response, geocode_result, callLog, gap, requested,
                   returns, mainVars, harness>>

\* except Exception, for either query: the body is no JSON, or the first
\* candidate has no lat or lon or one that float() rejects
Unexpected(resp) ==
    /\ pc \in {"primary", "fallback"}
    /\ response = resp
    /\ \/ resp.kind = "JSONDecodeError"
       \/ /\ resp.kind = "json"
          /\ HasCandidates(resp.data)
          /\ ~CandidateOK(PickCandidate(resp.data))
    /\ Return(None)

\* as Backoff, but a failure of the fallback query does not use up an attempt
BackoffPerStage ==
    /\ pc = "backoff"
    /\ callLog' = Append(callLog, "sleep")
    /\ gap' = Append(gap, RetryDelay)
    /\ attempt' = IF callLog[Len(callLog) - 1] = "fallback" THEN attempt ELSE attempt + 1
    /\ pc' = "try"
    /\ UNCHANGED <<inFile, landmarks, idx, results, inflight, response, geocode_result,
                   summary, csvFile, jsonFile, requested, returns, harness>>

\* time.sleep(2) and the next iteration of the attempt loop
Backoff ==
    /\ pc = "backoff"
    /\ callLog' = Append(callLog, "sleep")
    /\ gap' = Append(gap, RetryDelay)
    /\ attempt' = attempt + 1
    /\ pc' = "try"
    /\ UNCHANGED <<inFile, landmarks, idx, results, inflight, response, geocode_result,
                   summary, csvFile, jsonFile, requested, returns, harness>>

\* as AppendResult, but a landmark whose geocoding failed is left out
AppendResultDropsFailed ==
    /\ pc = "returned"
    /\ results' = IF Truthy(geocode_result)
                  THEN Append(results, OutcomeRecord(landmarks[idx], geocode_result))
                  ELSE results
    /\ callLog' = <<>>
    /\ response' = None
    /\ pc' = "pace"
    /\ UNCHANGED <<inFile, landmarks, idx, attempt, inflight, geocode_result, summary,
                   csvFile, jsonFile, gap, requested, returns, harness>>

\* main builds the outcome dict and appends it
AppendResult ==
    /\ pc = "returned"
    /\ results' = Append(results, OutcomeRecord(landmarks[idx], geocode_result))
    /\ callLog' = <<>>
    /\ response' = None
    /\ pc' = "pace"
    /\ UNCHANGED <<inFile, landmarks, idx, attempt, inflight, geocode_result, summary,
                   csvFile, jsonFile, gap, requested, returns, harness>>

\* as Pace, but the delay is skipped after a failed geocoding
PaceAfterSuccessOnly ==
    /\ pc = "pace"
    /\ gap' = IF Truthy(geocode_result) THEN Append(gap, PaceDelay) ELSE gap
    /\ pc' = "loop"
    /\ UNCHANGED <<inFile, landmarks, idx, results, attempt, inflight, response, geocode_result,
                   summary, csvFile, jsonFile, callLog, requested, returns, harness>>

\* time.sleep(1.1)
Pace ==
    /\ pc = "pace"
    /\ gap' = Append(gap, PaceDelay)
    /\ pc' = "loop"
    /\ UNCHANGED <<inFile, landmarks, idx, results, attempt, inflight, response, geocode_result,
                   summary, csvFile, jsonFile, callLog, requested, returns, harness>>

\* the loop is over: the summary is printed
Summary ==
    /\ pc = "loop"
    /\ idx >= Len(landmarks)
    /\ summary' = [total |-> Len(results),
                   successful |-> Successful(results),
                   failed |-> Len(results) - Successful(results)]
    /\ pc' = "report"
    /\ UNCHANGED <<inFile, landmarks, idx, results, attempt, inflight, response, geocode_result,
                   csvFile, jsonFile, callLog, gap, requested, returns, harness>>

\* as WriteCsv, but the file is opened before the loop and a row is written
\* as soon as its landmark is done
WriteCsvAsItGoes ==
    /\ pc \in {"loop", "report"}
    /\ csvFile' = [t |-> "file", text |-> CsvText(results)]
    /\ pc' = IF pc = "report" THEN "done" ELSE pc
    /\ csvFile' # csvFile
    /\ UNCHANGED <<inFile, landmarks, idx, results, attempt, inflight, response, geocode_result,
                   summary, jsonFile, callLog, gap, requested, returns, harness>>

\* the CSV file is written and main returns; output_file is never opened
WriteCsv ==
    /\ pc = "report"
    /\ csvFile' = [t |-> "file", text |-> CsvText(results)]
    /\ pc' = "done"
    /\ UNCHANGED <<inFile, landmarks, idx, results, attempt, inflight, response, geocode_result,
                   summary, jsonFile, callLog, gap, requested, returns, harness>>

Next ==
    \/ Extract
    \/ ExtractFails
    \/ NextLandmark
    \/ SendPrimary
    \/ \E resp \in Responses : Deliver(resp)
    \/ \E resp \in Responses : Found(resp)
    \/ \E resp \in Responses : PrimaryEmpty(resp)
    \/ \E resp \in Responses : FallbackEmpty(resp)
    \/ \E resp \in Responses : Transient(resp)
    \/ \E resp \in Responses : Unexpected(resp)
    \/ Backoff
    \/ AppendResult
    \/ Pace
    \/ Summary
    \/ WriteCsv

Spec == Init /\ [][Next]_vars

\* the steps of main after extract_landmarks_from_file has returned
Proceed ==
    \/ NextLandmark
    \/ SendPrimary
    \/ \E resp \in Responses : Deliver(resp)
    \/ \E resp \in Responses : Found(resp)
    \/ \E resp \in Responses : PrimaryEmpty(resp)
    \/ \E resp \in Responses : FallbackEmpty(resp)
    \/ \E resp \in Responses : Transient(resp)
    \/ \E resp \in Responses : Unexpected(resp)
    \/ Backoff
    \/ AppendResult
    \/ Pace
    \/ Summary
    \/ WriteCsv

\* main is a single thread that runs each statement it reaches, and every
\* urlopen returns or raises (timeout=10): once in.txt is read, a step that
\* can be taken is taken
Fairness == WF_vars(Proceed)

SpecFair == Spec /\ Fairness

\* main is run again on the same in.txt, the stub giving its recorded answers
\* again; the files of the first run are still there
Rerun ==
    /\ pc = "done"
    /\ harness.mode = "record"
    /\ harness' = Replaying(harness,
                            [results |-> results, csvFile |-> csvFile, jsonFile |-> jsonFile])
    /\ pc' = "start"
    /\ landmarks' = <<>>
    /\ idx' = 0
    /\ results' = <<>>
    /\ attempt' = 0
    /\ inflight' = None
    /\ response' = None
    /\ geocode_result' = None
    /\ summary' = None
    /\ callLog' = <<>>
    /\ gap' = <<>>
    /\ requested' = FALSE
    /\ returns' = <<>>
    /\ UNCHANGED <<inFile, csvFile, jsonFile>>

NextRerun == Next \/ Rerun

\* two runs of main over the same in.txt against the stubbed service
SpecRerun == InitRerun /\ [][NextRerun]_vars

(***************************************************************************)
(* Properties.                                                             *)
(***************************************************************************)
\* positions of main between the call of geocode_landmark and its return
InCall == {"try", "primary", "fallback", "backoff"}

\* an answer has arrived and the program has not acted on it yet
Pending == pc \in {"primary", "fallback"} /\ inflight = None

\* record r was built from a geocoding result
IsSuccess(r) == "coord_difference" \in DOMAIN r

\* record r was built from an absent result
IsFailure(r) == "error" \in DOMAIN r

\* C1: at every point of main's loop results holds one record per landmark
\* processed so far, record i carrying the name, location and existing
\* coordinates of landmark i; once the loop is over results is as long as
\* landmarks, whatever the geocoding calls produced.
ResultsFollowLandmarks ==
    /\ Len(results) = (IF pc \in InCall \cup {"returned"} THEN idx - 1 ELSE idx)
    /\ Len(results) <= Len(landmarks)
    /\ \A i \in 1..Len(results) :
          /\ results[i].name = landmarks[i].name
          /\ results[i].location = landmarks[i].location
          /\ results[i].existing_coords =
                 [lat |-> landmarks[i].existing_lat, lon |-> landmarks[i].existing_lon]
    /\ pc \in {"report", "done"} => Len(results) = Len(landmarks)

\* a finished run over two different landmarks, one geocoded and one not
MixedOutcomesRecorded ==
    /\ pc = "done"
    /\ Len(landmarks) = 2
    /\ landmarks[1] # landmarks[2]
    /\ Len(results) = 2
    /\ IsFailure(results[1])
    /\ IsSuccess(results[2])

\* C2: a run that read its input ends with both the JSON file and the CSV
\* file written, each with one entry per extracted landmark.
BothArtifactsWritten ==
    pc = "done" =>
        /\ csvFile # None
        /\ Len(Split(csvFile.text)) = Len(landmarks) + 2
        /\ jsonFile # None
        /\ Len(jsonFile.entries) = Len(landmarks)

\* C7: when in.txt cannot be read the run ends inside extraction: no request
\* is ever sent, no outcome record is built and no output file is written.
UnreadableInputAborts ==
    inFile = None =>
        /\ pc \in {"start", "aborted"}
        /\ ~requested
        /\ inflight = None
        /\ landmarks = <<>>
        /\ results = <<>>
        /\ summary = None
        /\ csvFile = None
        /\ jsonFile = None

\* the run has ended on the unreadable file
AbortedOnUnreadableInput == pc = "aborted" /\ inFile = None

\* the number of entries e among the first k of the call's log
CountIn(k, e) == Cardinality({i \in 1..k : callLog[i] = e})

\* the call has returned None and taken no delay since its last request
ReturnedAbsent == pc = "returned" /\ geocode_result = None /\ gap = <<>>

\* C3: within one call a transient failure, at the primary or the fallback
\* query, ends the attempt; before the third attempt's failure it is followed
\* by one 2-unit delay and then a new primary query, and the third attempt's
\* failure makes the call return None, main going on; a call makes at most 3
\* attempts.
TransientFailureRetries ==
    /\ CountIn(Len(callLog), "primary") <= 3
    /\ pc = "try" /\ callLog # <<>> => gap = <<20>>
    /\ callLog # <<>> => pc # "aborted"
    /\ \A k \in 1..Len(callLog) :
          callLog[k] = "transient" =>
              /\ callLog[k - 1] \in {"primary", "fallback"}
              /\ IF CountIn(k, "primary") < 3
                 THEN /\ k = Len(callLog) => Pending \/ pc = "backoff"
                      /\ k < Len(callLog) => callLog[k + 1] = "sleep"
                      /\ k + 1 < Len(callLog) => callLog[k + 2] = "primary"
                 ELSE /\ k = Len(callLog)
                      /\ Pending \/ (ReturnedAbsent /\ ENABLED AppendResult)

\* a call that failed transiently at the primary query, then at the fallback
\* query, then a third time, and returned None
ThreeTransientFailures ==
    /\ pc = "returned"
    /\ geocode_result = None
    /\ callLog = <<"primary", "transient", "sleep",
                   "primary", "empty", "fallback", "transient", "sleep",
                   "primary", "transient">>

\* C4: when the primary and then the fallback query of one attempt return no
\* candidate the call returns None at once: no request, no delay and no
\* further attempt follows.
BothEmptyReturnsAbsent ==
    \A k \in 2..Len(callLog) :
        callLog[k] = "empty" /\ callLog[k - 1] = "fallback" =>
            /\ callLog[k - 3] = "primary" /\ callLog[k - 2] = "empty"
            /\ k = Len(callLog)
            /\ inflight = None
            /\ Pending \/ ReturnedAbsent

\* the first attempt found nothing with either query and the call returned
BothEmptyOnFirstAttempt ==
    /\ pc = "returned"
    /\ geocode_result = None
    /\ attempt = 0
    /\ callLog = <<"primary", "empty", "fallback", "empty">>

\* C5: a failure that is no network or timeout failure (a body that is no
\* JSON, a first candidate without usable lat and lon), at either query of
\* any attempt, makes the call return None at once: no request and no delay
\* follows, whatever attempts remain.
UnexpectedFailureReturnsAbsent ==
    \A k \in 1..Len(callLog) :
        callLog[k] \in {"garbage", "malformed"} =>
            /\ callLog[k - 1] \in {"primary", "fallback"}
            /\ k = Len(callLog)
            /\ inflight = None
            /\ Pending \/ ReturnedAbsent

\* the fallback query of the second attempt was answered with a candidate
\* that has no usable coordinates and the call returned with an attempt left
UnexpectedFailureWithAttemptsLeft ==
    /\ pc = "returned"
    /\ geocode_result = None
    /\ attempt = 1
    /\ callLog = <<"primary", "transient", "sleep", "primary", "empty", "fallback", "malformed">>

\* C6: after every return of geocode_landmark main takes exactly one 1.1-unit
\* delay before the next call, so that delay, and nothing else, lies between
\* the last request for one landmark and the first request for the next.
OnePacingDelayPerLandmark ==
    /\ pc \in {"returned", "pace"} => gap = <<>>
    /\ pc = "loop" /\ idx > 0 => gap = <<11>>
    /\ pc = "try" /\ callLog = <<>> /\ idx > 1 => gap = <<11>>
    /\ pc = "try" /\ callLog = <<>> /\ idx = 1 => gap = <<>>

\* the second landmark's call is about to send its first request, after a
\* first call that returned None
PacedAfterFailedCall ==
    /\ pc = "try"
    /\ callLog = <<>>
    /\ idx = 2
    /\ IsFailure(results[1])
    /\ gap = <<11>>

\* the row of the CSV file for landmark i, without its newline: the name
\* with ';' for ',', then the geocoded coordinates if call i returned a
\* result and the coordinates of in.txt if it returned None
ExpectedRow(i) ==
    ReplaceComma(landmarks[i].name) \o <<",">>
        \o FormatFloat(IF returns[i] # None THEN returns[i].lat ELSE landmarks[i].existing_lat)
        \o <<",">>
        \o FormatFloat(IF returns[i] # None THEN returns[i].lon ELSE landmarks[i].existing_lon)

\* C8: after its header the CSV file holds exactly one row per landmark, in
\* extraction order, with the geocoded coordinates where the call returned a
\* result and the existing coordinates where it returned None.
CsvRowPerLandmark ==
    pc = "done" =>
        /\ csvFile # None
        /\ Len(returns) = Len(landmarks)
        /\ Len(Split(csvFile.text)) = Len(landmarks) + 2
        /\ Split(csvFile.text)[1] = <<"n", "a", "m", "e", ",", "l", "a", "t", ",", "l", "o", "n">>
        /\ Split(csvFile.text)[Len(landmarks) + 2] = <<>>
        /\ \A i \in 1..Len(landmarks) : Split(csvFile.text)[i + 1] = ExpectedRow(i)

\* a written CSV file whose first row carries geocoded coordinates that differ
\* from those of in.txt and whose second row falls back to in.txt
CsvWithBothKindsOfRow ==
    /\ pc = "done"
    /\ Len(landmarks) = 2
    /\ returns[1] # None
    /\ returns[1].lat # landmarks[1].existing_lat
    /\ returns[2] = None
    /\ Split(csvFile.text)[3] = ExpectedRow(2)

\* the keys of an outcome record built from a result, and from None
SuccessKeys ==
    {"name", "location", "existing_coords", "new_coords", "display_name", "coord_difference"}

FailureKeys == {"name", "location", "existing_coords", "new_coords", "display_name", "error"}

\* record r has the failure shape
FailureShape(r) ==
    /\ DOMAIN r = FailureKeys
    /\ r.new_coords = None
    /\ r.display_name = None
    /\ r.error = "Geocoding failed"

\* C9 as stated: every outcome record has new coordinates, a display name and
\* the coordinate differences and no error marker, or null coordinates, a
\* null display name and the error marker; the first if and only if the call
\* returned a result.
OutcomeShapesAsStated ==
    \A i \in 1..Len(results) :
        IF returns[i] # None
        THEN /\ DOMAIN results[i] = SuccessKeys
             /\ results[i].new_coords # None
             /\ results[i].display_name # None
        ELSE FailureShape(results[i])

\* C9 as amended: every outcome record has new coordinates, the coordinate
\* differences, no error marker and the display name the call returned (null
\* when the candidate's display_name was null), or null coordinates, a null
\* display name and the error marker; the first if and only if the call
\* returned a result.
OutcomeShapes ==
    /\ Len(results) <= Len(returns)
    /\ \A i \in 1..Len(results) :
          IF returns[i] # None
          THEN /\ DOMAIN results[i] = SuccessKeys
               /\ results[i].new_coords = [lat |-> returns[i].lat, lon |-> returns[i].lon]
               /\ results[i].display_name = returns[i].display_name
               /\ results[i].coord_difference =
                      [lat_diff |-> Abs(returns[i].lat - landmarks[i].existing_lat),
                       lon_diff |-> Abs(returns[i].lon - landmarks[i].existing_lon)]
          ELSE FailureShape(results[i])

\* results holds a record of each shape, the first built from a result at
\* latitude 0.0
BothShapesRecorded ==
    /\ pc = "pace"
    /\ Len(results) = 2
    /\ returns[1] # None
    /\ returns[1].lat = 0
    /\ IsSuccess(results[1])
    /\ returns[2] = None
    /\ IsFailure(results[2])

\* the display name read from candidate c: its display_name, '' when it has
\* none
LabelOf(c) == IF "display_name" \in DOMAIN c THEN c.display_name ELSE PyStr(<<>>)

\* C10 as stated: whenever an answer holds at least one candidate the call
\* returns the lat, lon and display_name of the first one.
FirstCandidateAsStated ==
    /\ \A k \in 1..Len(callLog) :
          callLog[k] \in {"candidates", "malformed"} =>
              k = Len(callLog) /\ (Pending \/ pc = "returned")
    /\ pc = "returned" /\ response.kind = "json" /\ Len(response.data) > 0 =>
          /\ geocode_result # None
          /\ geocode_result.lat = FloatVal(response.data[1].lat)
          /\ geocode_result.lon = FloatVal(response.data[1].lon)
          /\ geocode_result.display_name = LabelOf(response.data[1])

\* C10 as amended: whenever an answer holds at least one candidate the call
\* returns at once; it returns the first candidate's lat and lon as floats
\* with its display_name ('' when it has none) if float() accepts that
\* candidate's lat and lon, and None otherwise; later candidates and earlier
\* answers are never read.
FirstCandidateDecides ==
    /\ \A k \in 1..Len(callLog) :
          callLog[k] \in {"candidates", "malformed"} =>
              k = Len(callLog) /\ (Pending \/ pc = "returned")
    /\ pc = "returned" /\ response.kind = "json" /\ Len(response.data) > 0 =>
          IF response.data[1] \in Malformed
          THEN geocode_result = None
          ELSE /\ geocode_result # None
               /\ geocode_result.lat = FloatVal(response.data[1].lat)
               /\ geocode_result.lon = FloatVal(response.data[1].lon)
               /\ geocode_result.display_name = LabelOf(response.data[1])

\* the fallback query was answered with two candidates after an earlier
\* attempt failed, and the call returned the values of the first: 0.0, 0.0
\* and ''
FirstOfTwoReturned ==
    /\ pc = "returned"
    /\ callLog = <<"primary", "transient", "sleep", "primary", "empty", "fallback", "candidates">>
    /\ response.data = <<CandZero, CandFull>>
    /\ geocode_result = PyTuple(0, 0, PyStr(<<>>))

\* seq p is the beginning of seq q
IsPrefix(p, q) == Len(p) <= Len(q) /\ \A i \in 1..Len(p) : p[i] = q[i]

\* what the second run repeats of the first: at every point its requests are
\* the first requests of the first run and the stub has an answer for the one
\* in flight, and at its end the requests, the outcome list and the CSV file
\* are those of the first run
RerunRepeatsFirstRun ==
    harness.mode = "replay" =>
        /\ IsPrefix(harness.sent, harness.first.sent)
        /\ inflight # None => harness.pos <= Len(harness.tape)
        /\ pc = "done" =>
            /\ harness.sent = harness.first.sent
            /\ harness.pos = Len(harness.tape) + 1
            /\ results = harness.first.results
            /\ csvFile # None
            /\ csvFile = harness.first.csvFile

\* C11: two runs of main over the same in.txt, the service giving the same
\* answer to each request in both, send the same sequence of requests, build
\* the same outcome list, and each produces a JSON file and a CSV file that
\* are byte for byte those of the other run.
RerunReproducesArtifacts ==
    (harness.mode = "replay" /\ pc = "done") =>
        /\ harness.sent = harness.first.sent
        /\ results = harness.first.results
        /\ csvFile # None
        /\ csvFile = harness.first.csvFile
        /\ jsonFile # None
        /\ jsonFile = harness.first.jsonFile


\* the lines of a text whose stripped form the pattern matches, in file order
MatchingLines(content) == SelectSeq(Split(content), LAMBDA l : Matches(Strip(l)) # {})

\* the list recs holds the record of each line of ml, in the order of ml
RecordPerLine(recs, ml) ==
    /\ Len(recs) = Len(ml)
    /\ \A k \in 1..Len(ml) : recs[k] = LineRecord(ml[k])

\* extract_landmarks_from_file has just returned
Extracted == pc = "loop" /\ idx = 0

\* C12: extract_landmarks_from_file returns one record per line that matches
\* the pattern, in the order of the lines in the file; a line that does not
\* match gives no record, raises nothing and does not end the reading of the
\* lines after it.
OneRecordPerMatchingLine ==
    /\ Extracted => RecordPerLine(landmarks, MatchingLines(inFile.text))
    /\ pc = "aborted" => inFile = None

\* C12 witness: a file whose first line does not match and whose second line
\* does was read, and the record of the second line is there
MatchAfterMismatchExtracted ==
    /\ Extracted
    /\ inFile.text = JoinLines(<<LineNoSpace, LinePlain>>)
    /\ landmarks = <<[name |-> <<"a">>, location |-> <<"b">>,
                      existing_lat |-> 15, existing_lon |-> -20]>>

\* main has ended with an outcome for every landmark and the report written
Finished ==
    /\ pc = "done"
    /\ idx = Len(landmarks)
    /\ Len(results) = Len(landmarks)
    /\ csvFile # None

\* C13: every request being answered in the end, a run whose in.txt was read
\* (main is at its loop) ends with every extracted landmark processed: each geocode_landmark call
\* returns, and no failed landmark ends the run before the last one.
RunTerminates ==
    /\ (pc \in InCall) ~> (pc = "returned")
    /\ (pc = "loop") ~> Finished

\* C13 witness: a run of two landmarks has ended, the call for the first
\* having returned None
FinishedAfterFailedLandmark ==
    /\ Finished
    /\ Len(results) = 2
    /\ returns[1] = None
    /\ IsFailure(results[1])

\* the entries of callLog that are requests, and those that are answers
RequestEntries == {"primary", "fallback"}

AnswerEntries == {"transient", "garbage", "empty", "malformed", "candidates"}

\* a delay was taken between the request logged at i and the one before it
DelayBefore(i) ==
    \E j \in 1..(i - 1) :
        /\ callLog[j] = "sleep"
        /\ \A k \in (j + 1)..(i - 1) : callLog[k] \notin RequestEntries

\* the primary queries of the call in progress but the first each come after
\* a delay taken since the request before
RetriesSpacedByDelay ==
    \A i \in 2..Len(callLog) : callLog[i] = "primary" => DelayBefore(i)

\* a call's first request, when it is not the first of the run, comes after a
\* delay taken since the request before
CallsSpacedByDelay == (pc = "try" /\ callLog = <<>> /\ requested) => gap # <<>>

\* a request is sent only when the one before it has been answered
OneRequestInFlight ==
    /\ inflight # None => pc \in {"primary", "fallback"}
    /\ \A i \in 2..Len(callLog) :
          callLog[i] \in RequestEntries => callLog[i - 1] \notin RequestEntries

\* C14: at most one request per second over the whole run: any two requests
\* that follow each other, a primary query and the fallback query of the same
\* attempt included, have a delay between them (the retry delay of 2 or the
\* pacing delay of 1.1), and at most one request is in flight at any time.
RequestsSpacedByDelay ==
    /\ OneRequestInFlight
    /\ CallsSpacedByDelay
    /\ \A i \in 2..Len(callLog) : callLog[i] \in RequestEntries => DelayBefore(i)

\* what holds of C14: one request in flight, and a delay before every
\* request but the fallback one
SpacedButForFallback == OneRequestInFlight /\ CallsSpacedByDelay /\ RetriesSpacedByDelay

\* C15: within an attempt the fallback (name-only) query is sent only after
\* the primary query of that attempt was answered with zero candidates; when
\* the primary query is answered with a candidate or more, or fails, the
\* attempt sends no fallback query.
FallbackOnlyAfterEmptyPrimary ==
    /\ \A i \in 1..Len(callLog) :
          /\ callLog[i] = "fallback" =>
                 i >= 3 /\ callLog[i - 1] = "empty" /\ callLog[i - 2] = "primary"
          /\ (/\ callLog[i] = "primary"
              /\ i < Len(callLog)
              /\ callLog[i + 1] \in AnswerEntries \ {"empty"}) =>
                 \A k \in (i + 2)..Len(callLog) :
                     callLog[k] = "fallback" =>
                         \E j \in (i + 2)..(k - 1) : callLog[j] = "primary"
    /\ (inflight # None /\ inflight.stage = "fallback") =>
          /\ callLog[Len(callLog)] = "fallback"
          /\ inflight.q = SimpleQuery(landmarks[idx].name)
    /\ (inflight # None /\ inflight.stage = "primary") => callLog[Len(callLog)] = "primary"

\* C15 witness: the first attempt failed at its primary query and sent no
\* fallback query; the second attempt's primary query found nothing and its
\* fallback query is in flight
FallbackInSecondAttemptOnly ==
    /\ callLog = <<"primary", "transient", "sleep", "primary", "empty", "fallback">>
    /\ inflight # None
    /\ inflight.stage = "fallback"

\* the number of geocode_landmark calls of the run that returned a result
ReturnedResults == Cardinality({i \in 1..Len(returns) : returns[i] # None})

\* C16: the summary's total is the number of extracted landmarks, its success
\* count is the number of landmarks whose call returned a result (also one
\* with coordinates 0.0, 0.0 or an empty display name), and its failure count
\* is the total minus the successes, so that the two counts sum to the total.
SummaryCounts ==
    summary # None =>
        /\ summary.total = Len(landmarks)
        /\ Len(returns) = Len(landmarks)
        /\ summary.successful = ReturnedResults
        /\ summary.failed = summary.total - ReturnedResults
        /\ summary.successful + summary.failed = summary.total

\* C16 witness: the summary of a run of two landmarks, one call having
\* returned 0.0, 0.0 with an empty display name and the other None
SummaryWithZeroResult ==
    /\ summary = [total |-> 2, successful |-> 1, failed |-> 1]
    /\ returns = <<PyTuple(0, 0, PyStr(<<>>)), None>>

\* the number of requests the call in progress has sent
RequestsSent == CountIn(Len(callLog), "primary") + CountIn(Len(callLog), "fallback")

\* C17: the two queries share the retry budget and a retry starts again from
\* the primary query: after a transient failure of the fallback query the
\* next request is the primary one, and a call sends at most 3 primary and at
\* most 3 fallback requests, at most 6 requests in all, and takes at most 2
\* retry delays.
RetryBudgetShared ==
    /\ CountIn(Len(callLog), "primary") <= 3
    /\ CountIn(Len(callLog), "fallback") <= 3
    /\ RequestsSent <= 6
    /\ CountIn(Len(callLog), "sleep") <= 2
    /\ pc \in InCall \cup {"returned"} => attempt = CountIn(Len(callLog), "sleep")
    /\ \A i \in 1..Len(callLog) :
          /\ (callLog[i] = "sleep" /\ i < Len(callLog)) => callLog[i + 1] = "primary"
          /\ (i >= 2 /\ callLog[i] = "transient" /\ callLog[i - 1] = "fallback") =>
                 \A k \in (i + 1)..Len(callLog) :
                     callLog[k] = "fallback" =>
                         \E j \in (i + 1)..(k - 1) : callLog[j] = "primary"

\* C17 witness: a call whose three attempts each found nothing at the primary
\* query and failed at the fallback query: 6 requests and 2 retry delays
SixRequestsInOneCall ==
    /\ pc = "returned"
    /\ callLog = <<"primary", "empty", "fallback", "transient", "sleep",
                   "primary", "empty", "fallback", "transient", "sleep",
                   "primary", "empty", "fallback", "transient">>

\* every extracted landmark's call has returned and its record is appended
AllLandmarksRecorded ==
    /\ idx = Len(landmarks)
    /\ Len(returns) = Len(landmarks)
    /\ Len(results) = Len(landmarks)
    /\ pc \notin InCall \cup {"returned"}

\* C18: the report is made once, after the last landmark: no output file is
\* opened or written before the call of every extracted landmark has returned
\* and its record has been appended, so a run that stops before the end of
\* the loop leaves no partial file.
ReportAfterLastLandmark ==
    /\ (csvFile # None \/ jsonFile # None) => (pc = "done" /\ AllLandmarksRecorded)
    /\ csvFile # None => csvFile.text = CsvText(results)
    /\ pc \in {"start", "aborted", "loop", "pace", "report"} \cup InCall \cup {"returned"} =>
          (csvFile = None /\ jsonFile = None)
    /\ summary # None => AllLandmarksRecorded

\* C18 witness: the CSV file of a run of two landmarks is written, the first
\* landmark's call having returned a result and the last one's None
ReportWrittenAfterLastFailure ==
    /\ csvFile # None
    /\ Len(landmarks) = 2
    /\ returns[1] # None
    /\ returns[2] = None

====
